---- MODULE Spec2Model ----
(***************************************************************************)
(* A model of todolist-rs (src/src/main.rs): four axum handlers, each      *)
(* issuing one SQL statement against the Postgres table `tasks` through a  *)
(* shared connection pool and mapping the outcome to a JSON envelope.      *)
(*                                                                         *)
(* Every handler awaits exactly one statement, and the database executes   *)
(* a single statement atomically, so concurrent requests are serialised    *)
(* at their statements: an interleaving of requests is a sequence of       *)
(* handler actions.                                                        *)
(***************************************************************************)
EXTENDS Integers, Sequences, FiniteSets

\* Largest id the sequence hands out in the model (the column is an i32).
MaxId == 3

\* Request values.
Names == {"a", "b"}
Priorities == {1}

\* Option<T>: None and Some(x).  A JSON member that is absent (or null)
\* deserializes to None, a NULL column value is None.
None == <<>>
Some(x) == <<x>>
IsSome(o) == o # None
Unwrap(o) == o[1]
OptionOf(S) == {None} \cup {Some(x) : x \in S}

\* A JSON request body with the members name and priority, each optional.
Bodies == [name : OptionOf(Names), priority : OptionOf(Priorities)]
NoBody == [name |-> None, priority |-> None]

\* Path ids of PUT and DELETE.
PathIds == 1..MaxId

VARIABLES
    tasks,      \* the table: a set of rows [id, name, priority]
    nextId,     \* the next value of the id column's sequence
    dbUp,       \* whether the pool can execute a statement
    req,        \* the request handled last
    resp,       \* the response to it
    created,    \* history: the ids successful creates returned, in order
    deleted,    \* history: ids of successful DELETE requests
    gone        \* history: ids deleted after a create had returned them

vars == <<tasks, nextId, dbUp, req, resp, created, deleted, gone>>

----------------------------------------------------------------------------
\* The database.

\* The columns sqlx maps to non-Option fields: query_as!(TaskRow, ...) type
\* checks the struct against the table, so `name: String` (not
\* Option<String>) says the column is NOT NULL, `priority: Option<i32>`
\* that it is nullable.
NotNullColumnsNameNullable == {"id"}
NotNullColumns == {"id", "name"}

\* The id column's default: the next value of its sequence.
NextVal(seq) == seq + 1

Ok(v) == [ok |-> TRUE, value |-> v]
Err(msg) == [ok |-> FALSE, error |-> msg]

Ids(rows) == {r.id : r \in rows}
SeqIds(s) == {s[i].id : i \in DOMAIN s}

\* All orders in which a SELECT without ORDER BY may return the rows.
RowOrders(rows) ==
    {s \in [1..Cardinality(rows) -> rows] :
        \A i, j \in DOMAIN s : i # j => s[i] # s[j]}

\* SELECT * FROM tasks ORDER BY id
SelectAllUnordered(db, t) ==
    IF ~db THEN {Err("pool timed out")}
    ELSE {Ok(s) : s \in RowOrders(t)}
SelectAllOrderById(db, t) ==
    IF ~db THEN {Err("pool timed out")}
    ELSE {Ok(s) : s \in {p \in RowOrders(t) :
                          \A i, j \in DOMAIN p : i < j => p[i].id <= p[j].id}}

\* INSERT INTO tasks (name, priority) VALUES ($1, $2) RETURNING id
InsertFixedId(db, t, seq, name, priority) ==
    IF ~db THEN Err("pool timed out")
    ELSE Ok([id |-> 1, seq |-> seq,
             table |-> t \cup {[id |-> 1, name |-> Some(name),
                                priority |-> priority]}])
Insert(db, t, seq, name, priority) ==
    IF ~db THEN Err("pool timed out")
    ELSE IF seq \in Ids(t) THEN Err("duplicate key value")
    ELSE Ok([id |-> seq, seq |-> NextVal(seq),
             table |-> t \cup {[id |-> seq, name |-> Some(name),
                                priority |-> priority]}])

\* UPDATE tasks SET name = $2, priority = $3 WHERE id = $1
Replace(t, matched, name, priority) ==
    (t \ matched) \cup
        {[id |-> r.id, name |-> name, priority |-> priority] : r \in matched}
UpdateNoWhere(db, t, id, name, priority) ==
    IF ~db THEN Err("pool timed out")
    ELSE IF t # {} /\ "name" \in NotNullColumns /\ name = None
         THEN Err("null value in column name")
    ELSE Ok(Replace(t, t, name, priority))
UpdateCoalesce(db, t, id, name, priority) ==
    IF ~db THEN Err("pool timed out")
    ELSE LET matched == {r \in t : r.id = id}
         IN Ok((t \ matched) \cup
                {[id |-> r.id,
                  name |-> IF name = None THEN r.name ELSE name,
                  priority |-> IF priority = None THEN r.priority
                               ELSE priority] : r \in matched})
UpdateNameOnly(db, t, id, name, priority) ==
    IF ~db THEN Err("pool timed out")
    ELSE LET matched == {r \in t : r.id = id}
         IN IF matched # {} /\ "name" \in NotNullColumns /\ name = None
            THEN Err("null value in column name")
            ELSE Ok((t \ matched) \cup
                    {[id |-> r.id, name |-> name, priority |-> r.priority] :
                        r \in matched})
UpdateUpsert(db, t, id, name, priority) ==
    IF ~db THEN Err("pool timed out")
    ELSE IF "name" \in NotNullColumns /\ name = None
         THEN Err("null value in column name")
    ELSE Ok({r \in t : r.id # id} \cup
            {[id |-> id, name |-> name, priority |-> priority]})
Update(db, t, id, name, priority) ==
    IF ~db THEN Err("pool timed out")
    ELSE LET matched == {r \in t : r.id = id}
         IN IF matched # {} /\ "name" \in NotNullColumns /\ name = None
            THEN Err("null value in column name")
            ELSE Ok(Replace(t, matched, name, priority))

\* DELETE FROM tasks WHERE id = $1
DeleteNothing(db, t, id) ==
    IF ~db THEN Err("pool timed out")
    ELSE Ok(t)
Delete(db, t, id) ==
    IF ~db THEN Err("pool timed out")
    ELSE Ok({r \in t : r.id # id})

----------------------------------------------------------------------------
\* Response shaping.

\* TaskRow: decoding a row; a NULL in a non-Option field is a decode error.
Decodable(row) == IsSome(row.name)
TaskRow(row) ==
    [id |-> row.id, name |-> Unwrap(row.name), priority |-> row.priority]

\* json!({ "success": true, "data": ... }), status 200
OkDataNoKey(data) == [status |-> 200, body |-> [success |-> TRUE]]
OkData(data) == [status |-> 200, body |-> [success |-> TRUE, data |-> data]]

\* json!({ "success": true }), status 200
OkEmpty == [status |-> 200, body |-> [success |-> TRUE]]

\* json!({ "success": false, "message": e.to_string() }), status 500
InternalErrorAs200(e) ==
    [status |-> 200, body |-> [success |-> TRUE, message |-> e]]
InternalError(e) ==
    [status |-> 500, body |-> [success |-> FALSE, message |-> e]]

----------------------------------------------------------------------------
\* The handlers.

\* The ids successful creates have returned so far.
Returned == {created[i] : i \in DOMAIN created}

Init ==
    /\ tasks = {}
    /\ nextId = 1
    /\ dbUp = TRUE
    /\ req = [op |-> "none", id |-> 0, body |-> NoBody]
    /\ resp = [status |-> 0, body |-> [success |-> TRUE]]
    /\ created = <<>>
    /\ deleted = {}
    /\ gone = {}

\* GET /tasks
get_tasks ==
    /\ req' = [op |-> "list", id |-> 0, body |-> NoBody]
    /\ \E r \in SelectAllOrderById(dbUp, tasks) :
         resp' = IF ~r.ok THEN InternalError(r.error)
                 ELSE IF \E i \in DOMAIN r.value : ~Decodable(r.value[i])
                      THEN InternalError("unexpected null")
                 ELSE OkData([i \in DOMAIN r.value |-> TaskRow(r.value[i])])
    /\ UNCHANGED <<tasks, nextId, dbUp, created, deleted, gone>>

\* POST /tasks.  Json<CreateTaskRequest> requires `name`: a body without it
\* is rejected by the extractor and the handler does not run.
create_task(body) ==
    /\ IsSome(body.name)
    /\ nextId <= MaxId
    /\ req' = [op |-> "create", id |-> 0, body |-> body]
    /\ LET r == Insert(dbUp, tasks, nextId, Unwrap(body.name), body.priority)
       IN IF r.ok
          THEN /\ tasks' = r.value.table
               /\ nextId' = r.value.seq
               /\ resp' = OkData([id |-> r.value.id])
               /\ created' = Append(created, r.value.id)
          ELSE /\ resp' = InternalError(r.error)
               /\ UNCHANGED <<tasks, nextId, created>>
    /\ UNCHANGED <<dbUp, deleted, gone>>

\* PUT /tasks/:id.  Both members of UpdateTaskRequest are Option.
update_task(id, body) ==
    /\ req' = [op |-> "update", id |-> id, body |-> body]
    /\ LET r == Update(dbUp, tasks, id, body.name, body.priority)
       IN IF r.ok
          THEN /\ tasks' = r.value
               /\ resp' = OkEmpty
          ELSE /\ resp' = InternalError(r.error)
               /\ UNCHANGED tasks
    /\ UNCHANGED <<nextId, dbUp, created, deleted, gone>>

\* DELETE /tasks/:id
delete_task(id) ==
    /\ req' = [op |-> "delete", id |-> id, body |-> NoBody]
    /\ LET r == Delete(dbUp, tasks, id)
       IN IF r.ok
          THEN /\ tasks' = r.value
               /\ resp' = OkEmpty
               /\ deleted' = deleted \cup {id}
               /\ gone' = IF id \in Returned THEN gone \cup {id} ELSE gone
          ELSE /\ resp' = InternalError(r.error)
               /\ UNCHANGED <<tasks, deleted, gone>>
    /\ UNCHANGED <<nextId, dbUp, created>>

\* The database becomes unreachable, or reachable again.
DbFail ==
    /\ dbUp
    /\ dbUp' = FALSE
    /\ UNCHANGED <<tasks, nextId, req, resp, created, deleted, gone>>

DbRecover ==
    /\ ~dbUp
    /\ dbUp' = TRUE
    /\ UNCHANGED <<tasks, nextId, req, resp, created, deleted, gone>>

CreateStep == \E body \in Bodies : create_task(body)
UpdateStep == \E id \in PathIds, body \in Bodies : update_task(id, body)
DeleteStep == \E id \in PathIds : delete_task(id)

Next ==
    \/ get_tasks
    \/ CreateStep
    \/ UpdateStep
    \/ DeleteStep
    \/ DbFail
    \/ DbRecover

Spec == Init /\ [][Next]_vars

\* A step of a handler, seen from its two states: req' is the request it
\* handled.  Only DbFail and DbRecover change dbUp, and they handle none.
AnyHandler == dbUp' = dbUp
Handles(op) == AnyHandler /\ req'.op = op

----------------------------------------------------------------------------
\* Properties.

\* The ids of a list response, and whether the last request was a
\* successful list.
Listed == {resp.body.data[i].id : i \in DOMAIN resp.body.data}
ListedOk == req.op = "list" /\ resp.status = 200

\* C1: the ids successful creates return are pairwise different, and a
\* successful list contains every id a create has returned and no
\* DELETE has been answered for since.
CreatedIdsUniqueAndListed ==
    /\ \A i, j \in DOMAIN created : i # j => created[i] # created[j]
    /\ ListedOk => (Returned \ gone) \subseteq Listed
CreatedIdsWitness ==
    /\ ListedOk
    /\ Len(created) >= 2
    /\ gone # {}
    /\ Returned \ gone # {}

\* C2: a successful list is in strictly ascending order of id and holds
\* every stored task exactly once.
ListSortedAndComplete ==
    ListedOk =>
        LET data == resp.body.data
        IN /\ \A i, j \in DOMAIN data : i < j => data[i].id < data[j].id
           /\ Len(data) = Cardinality(tasks)
           /\ {data[i] : i \in DOMAIN data} = {TaskRow(r) : r \in tasks}
ListSortedWitness ==
    /\ ListedOk
    /\ Len(resp.body.data) >= 2
    /\ gone # {}
    /\ \E r \in tasks : r.priority = None

\* C3: with the database available, PUT on an existing id with a name and
\* no priority is answered 200 {success:true} and leaves that task with
\* the body's name and a null priority, whatever the priority was.
UpdateWithoutPriorityNullsIt ==
    [][(/\ Handles("update")
        /\ dbUp
        /\ req'.id \in Ids(tasks)
        /\ IsSome(req'.body.name)
        /\ req'.body.priority = None)
       => /\ resp'.status = 200
          /\ DOMAIN resp'.body = {"success"}
          /\ resp'.body.success
          /\ \E r \in tasks' : r.id = req'.id
          /\ \A r \in tasks' :
               r.id = req'.id =>
                  r.priority = None /\ r.name = req'.body.name]_vars
UpdateWithoutPriorityWitness ==
    /\ req.op = "update"
    /\ IsSome(req.body.name)
    /\ req.body.priority = None
    /\ resp.status = 200
    /\ \E r \in tasks : r.id = req.id /\ r.priority = None
    /\ \E r \in tasks : r.id # req.id /\ r.priority # None

\* C4 as claimed: with the database available, PUT on an existing id with
\* a body that omits name is answered 200 {success:true} and stores a null
\* name.
UpdateWithoutNameStoresNull ==
    [][(/\ Handles("update")
        /\ dbUp
        /\ req'.id \in Ids(tasks)
        /\ req'.body.name = None)
       => /\ resp'.status = 200
          /\ \A r \in tasks' : r.id = req'.id => r.name = None]_vars

\* C4 as amended: with the database available, PUT on an existing id is a
\* full replace when the body carries a name (the stored name and priority
\* become the body's, an omitted priority null, answer 200 {success:true});
\* a body that omits name is answered 500 {success:false, message} and
\* the table is left unchanged.
UpdateFullReplaceOrRejected ==
    [][(/\ Handles("update")
        /\ dbUp
        /\ req'.id \in Ids(tasks))
       => IF IsSome(req'.body.name)
          THEN /\ resp'.status = 200
               /\ DOMAIN resp'.body = {"success"}
               /\ resp'.body.success
               /\ \E r \in tasks' : r.id = req'.id
               /\ \A r \in tasks' :
                    r.id = req'.id =>
                       /\ r.name = req'.body.name
                       /\ r.priority = req'.body.priority
          ELSE /\ resp'.status = 500
               /\ DOMAIN resp'.body = {"success", "message"}
               /\ ~resp'.body.success
               /\ tasks' = tasks]_vars
UpdateWithoutNameWitness ==
    /\ req.op = "update"
    /\ req.body.name = None
    /\ req.id \in Ids(tasks)
    /\ dbUp
    /\ resp.status = 500
    /\ resp.body.message = "null value in column name"

\* C5: every stored task has a non-null name.
NameNeverNull == \A r \in tasks : IsSome(r.name)
NameNeverNullWitness ==
    /\ req.op = "update"
    /\ req.body = NoBody
    /\ req.id \in Ids(tasks)
    /\ resp.status = 500
    /\ Cardinality(tasks) >= 2

\* C6: with the database available, PUT (with any body) and DELETE on an
\* id no stored task has are answered 200 {success:true} and leave the
\* table unchanged.
MissingIdSucceedsUnchanged ==
    [][(/\ (Handles("update") \/ Handles("delete"))
        /\ dbUp
        /\ req'.id \notin Ids(tasks))
       => /\ resp'.status = 200
          /\ DOMAIN resp'.body = {"success"}
          /\ resp'.body.success
          /\ tasks' = tasks]_vars
MissingIdWitness ==
    /\ req.op = "update"
    /\ req.body.name = None
    /\ req.id \in gone
    /\ req.id \notin Ids(tasks)
    /\ resp.status = 200
    /\ tasks # {}

\* C7 as claimed: a successful list contains no id a DELETE has been
\* answered 200 for.
DeletedNeverListed == ListedOk => Listed \cap deleted = {}

\* C7 as amended: a successful list contains no id that a DELETE has been
\* answered 200 for after a create had returned that id.
DeletedAfterCreateNeverListed ==
    /\ ListedOk => Listed \cap gone = {}
    /\ Ids(tasks) \cap gone = {}
DeletedAfterCreateWitness ==
    /\ ListedOk
    /\ gone # {}
    /\ Listed # {}
    /\ nextId > MaxId

\* C8 as claimed: every envelope of a handler holds exactly one of data
\* and message: data when success is true, message when it is false.
EnvelopeExactlyOne ==
    req.op # "none" =>
        IF resp.body.success
        THEN "data" \in DOMAIN resp.body /\ "message" \notin DOMAIN resp.body
        ELSE "message" \in DOMAIN resp.body /\ "data" \notin DOMAIN resp.body

\* C8 as amended: a failure envelope holds message and no data; a success
\* envelope holds no message, and holds data exactly when it answers a
\* list or a create.
EnvelopeShape ==
    req.op # "none" =>
        IF resp.body.success
        THEN /\ "message" \notin DOMAIN resp.body
             /\ "data" \in DOMAIN resp.body <=> req.op \in {"list", "create"}
        ELSE "message" \in DOMAIN resp.body /\ "data" \notin DOMAIN resp.body
EnvelopeShapeWitness ==
    /\ req.op = "delete"
    /\ resp.status = 200
    /\ DOMAIN resp.body = {"success"}

\* C9: a handler whose statement fails answers 500 {success:false,
\* message} and leaves the table and the sequence as they were; every
\* handler fails while the database is unavailable, and once it is
\* available again a request is handled normally (200, success), unless
\* it is a PUT without name on an existing id.
Rejected == req'.op = "update" /\ req'.id \in Ids(tasks) /\ req'.body.name = None
FailureIsLocal ==
    [][AnyHandler =>
         /\ resp'.status \in {200, 500}
         /\ resp'.status = 500 =>
              /\ DOMAIN resp'.body = {"success", "message"}
              /\ ~resp'.body.success
              /\ tasks' = tasks
              /\ nextId' = nextId
         /\ ~dbUp => resp'.status = 500
         /\ (dbUp /\ ~Rejected) => resp'.status = 200 /\ resp'.body.success]_vars
FailureWitness ==
    /\ req.op = "create"
    /\ resp.status = 500
    /\ resp.body.message = "pool timed out"
    /\ dbUp
    /\ tasks # {}
    /\ nextId <= MaxId

\* C10: PUT changes at most the name and priority of the task with the
\* path id and DELETE removes at most that task: the set of ids is kept by
\* PUT and only shrinks by the path id under DELETE, and every task with
\* another id is left as it was.
OthersUntouched ==
    /\ \A r \in tasks : r.id # req'.id => r \in tasks'
    /\ \A r \in tasks' : r.id # req'.id => r \in tasks
FrameOfUpdateAndDelete ==
    [][/\ Handles("update")
            => /\ Ids(tasks') = Ids(tasks)
               /\ Cardinality(tasks') = Cardinality(tasks)
               /\ OthersUntouched
       /\ Handles("delete")
            => /\ tasks' \subseteq tasks
               /\ Ids(tasks) \ Ids(tasks') \subseteq {req'.id}
               /\ OthersUntouched]_vars
FrameWitness ==
    /\ req.op = "update"
    /\ resp.status = 200
    /\ req.id \in Ids(tasks)
    /\ Cardinality(tasks) >= 3

====
